---- MODULE Spec2Model ----
(***************************************************************************)
(* Control plane of rust-czmq: the ZAuth gatekeeper handle and the         *)
(* ZMonitor handle, each driving a background worker over its actor pipe,  *)
(* and the ZMonitorEvents wire vocabulary.                                 *)
(*                                                                         *)
(* One caller thread issues the public operations; each worker runs on its *)
(* own and is reached only through its pipe.  pipeIn[h] carries command    *)
(* messages to the worker of handle h, pipeOut[h] carries status replies   *)
(* and (for the monitor) event messages back.                              *)
(***************************************************************************)
EXTENDS Integers, Sequences, FiniteSets, TLC

\* Bounds of the model.
MaxOps == 3       \* public operations the caller issues in one run
MaxEvents == 2    \* event messages the monitor worker emits in one run
MaxListLen == 3   \* elements of a ZList

Handles == {"auth", "mon"}

(***************************************************************************)
(* ZMonitorEvents and its wire vocabulary  (src/src/zmonitor.rs)           *)
(***************************************************************************)
ZMonitorEvents ==
    {"Connected", "ConnectDelayed", "ConnectRetried", "Listening",
     "BindFailed", "Accepted", "AcceptFailed", "Closed", "CloseFailed",
     "Disconnected", "MonitorStopped", "All", "Unknown"}

to_str(e) ==
    CASE e = "Connected"      -> "CONNECTED"
      [] e = "ConnectDelayed" -> "CONNECT_DELAYED"
      [] e = "ConnectRetried" -> "CONNECT_RETRIED"
      [] e = "Listening"      -> "LISTENING"
      [] e = "BindFailed"     -> "BIND_FAILED"
      [] e = "Accepted"       -> "ACCEPTED"
      [] e = "AcceptFailed"   -> "ACCEPT_FAILED"
      [] e = "Closed"         -> "CLOSED"
      [] e = "CloseFailed"    -> "CLOSE_FAILED"
      [] e = "Disconnected"   -> "DISCONNECTED"
      [] e = "MonitorStopped" -> "MONITOR_STOPPED"
      [] e = "All"            -> "ALL"
      [] e = "Unknown"        -> "UNKNOWN"

\* from_str with the CLOSED arm decoding to the neighbouring variant.
from_str_closed_swapped(event) ==
    CASE event = "CONNECTED"       -> "Connected"
      [] event = "CONNECT_DELAYED" -> "ConnectDelayed"
      [] event = "CONNECT_RETRIED" -> "ConnectRetried"
      [] event = "LISTENING"       -> "Listening"
      [] event = "BIND_FAILED"     -> "BindFailed"
      [] event = "ACCEPTED"        -> "Accepted"
      [] event = "ACCEPT_FAILED"   -> "AcceptFailed"
      [] event = "CLOSED"          -> "CloseFailed"
      [] event = "CLOSE_FAILED"    -> "CloseFailed"
      [] event = "DISCONNECTED"    -> "Disconnected"
      [] event = "MONITOR_STOPPED" -> "MonitorStopped"
      [] event = "ALL"             -> "All"
      [] OTHER                     -> "Unknown"

\* from_str with an extra arm that accepts the token to_str gives Unknown.
from_str_accepts_unknown(event) ==
    CASE event = "CONNECTED"       -> "Connected"
      [] event = "CONNECT_DELAYED" -> "ConnectDelayed"
      [] event = "CONNECT_RETRIED" -> "ConnectRetried"
      [] event = "LISTENING"       -> "Listening"
      [] event = "BIND_FAILED"     -> "BindFailed"
      [] event = "ACCEPTED"        -> "Accepted"
      [] event = "ACCEPT_FAILED"   -> "AcceptFailed"
      [] event = "CLOSED"          -> "Closed"
      [] event = "CLOSE_FAILED"    -> "CloseFailed"
      [] event = "DISCONNECTED"    -> "Disconnected"
      [] event = "MONITOR_STOPPED" -> "MonitorStopped"
      [] event = "ALL"             -> "All"
      [] event = "UNKNOWN"         -> "All"
      [] OTHER                     -> "Unknown"

from_str(event) ==
    CASE event = "CONNECTED"       -> "Connected"
      [] event = "CONNECT_DELAYED" -> "ConnectDelayed"
      [] event = "CONNECT_RETRIED" -> "ConnectRetried"
      [] event = "LISTENING"       -> "Listening"
      [] event = "BIND_FAILED"     -> "BindFailed"
      [] event = "ACCEPTED"        -> "Accepted"
      [] event = "ACCEPT_FAILED"   -> "AcceptFailed"
      [] event = "CLOSED"          -> "Closed"
      [] event = "CLOSE_FAILED"    -> "CloseFailed"
      [] event = "DISCONNECTED"    -> "Disconnected"
      [] event = "MONITOR_STOPPED" -> "MonitorStopped"
      [] event = "ALL"             -> "All"
      [] OTHER                     -> "Unknown"

\* The twelve wire tokens of the match arms of from_str.
WireTokens ==
    {"CONNECTED", "CONNECT_DELAYED", "CONNECT_RETRIED", "LISTENING",
     "BIND_FAILED", "ACCEPTED", "ACCEPT_FAILED", "CLOSED", "CLOSE_FAILED",
     "DISCONNECTED", "MONITOR_STOPPED", "ALL"}

\* Strings handed to from_str: the tokens, near misses and other text.
OtherStrings ==
    {"UNKNOWN", "", "connected", "Connected", "CONNECT", "CONNECTED_",
     " ALL", "ALL ", "LISTEN", "START", "CLOSE-FAILED", "MONITOR_STOPPED\n"}

Strings == WireTokens \cup OtherStrings

(***************************************************************************)
(* Frames and messages                                                     *)
(***************************************************************************)
\* A frame is its bytes; utf8 tells whether they are valid UTF-8, and data
\* names the bytes (the text itself, or hex digits when it is not text).
TextFrame(s) == [utf8 |-> TRUE, data |-> s]
BytesFrame(b) == [utf8 |-> FALSE, data |-> b]
NoFrame == TextFrame("")

\* The first frame of a status reply: the worker's signal value, eight
\* bytes that are all below 0x80.
SignalFrame == TextFrame("<signal>")

\* First frames of the event messages the monitor worker emits.
EventFrames ==
    {TextFrame("LISTENING"), TextFrame("BOGUS"), BytesFrame("fffe")}

StatusMsg(id, code) ==
    [kind |-> "status", frames |-> <<SignalFrame>>, of |-> id, code |-> code,
     seq |-> 0]

EventMsg(f, n) ==
    [kind |-> "event", frames |-> <<f>>, of |-> 0, code |-> 0, seq |-> n]

\* ZMsg::popstr: the first frame as a string, or its bytes when it is not
\* UTF-8; an error when the message has no frame.
popstr(m) ==
    IF m.frames = <<>> THEN [tag |-> "Err", data |-> ""]
    ELSE IF m.frames[1].utf8 THEN [tag |-> "OkOk", data |-> m.frames[1].data]
    ELSE [tag |-> "OkErr", data |-> m.frames[1].data]

NoMsg == [kind |-> "none", frames |-> <<>>, of |-> 0, code |-> 0, seq |-> 0]

(***************************************************************************)
(* Command messages built by the public operations                         *)
(***************************************************************************)
Addresses == {"127.0.0.1"}
FileNames == {"passwd"}
None == [some |-> FALSE, val |-> ""]
Some(p) == [some |-> TRUE, val |-> p]
Locations == {None, Some("certs"), Some("*")}
\* The location as the argument recorded for the call: empty for None.
OptArg(location) == IF location.some THEN <<location.val>> ELSE <<>>
AttrLists == {<<>>, <<"All">>, <<"Listening", "Listening">>}

\* allow with the verb of deny.
AllowFramesDenyVerb(address) == <<"DENY", address>>

AllowFrames(address) == <<"ALLOW", address>>
DenyFrames(address) == <<"DENY", address>>
PlainFrames(filename) == <<"PLAIN", filename>>
\* load_curve with the else branch adding no frame for None.
CurveFramesNoSentinel(location) ==
    IF location.some THEN <<"CURVE", location.val>> ELSE <<"CURVE">>

CurveFrames(location) ==
    <<"CURVE", IF location.some THEN location.val ELSE "*">>
\* set_attrs adding one frame per distinct category only.
ListenFramesDedup(attrs) ==
    <<"LISTEN">> \o
    [i \in 1..Cardinality({attrs[j] : j \in 1..Len(attrs)}) |-> to_str(attrs[i])]

ListenFrames(attrs) ==
    <<"LISTEN">> \o [i \in 1..Len(attrs) |-> to_str(attrs[i])]
StartFrames == <<"START">>
VerboseFrames == <<"VERBOSE">>

VARIABLES
    pipeIn,       \* pipeIn[h]: command messages sent, not yet read by the worker
    pipeOut,      \* pipeOut[h]: messages posted by the worker, not yet received
    pc,           \* where the caller is: idle, wait, recv, panicked
    cur,          \* the operation the caller is inside
    ret,          \* what the last returned operation did and returned
    nops,         \* operations called so far
    processed,    \* processed[h]: ids of the commands the worker has executed
    started,      \* the monitor worker has executed START
    emitted,      \* first frames of the event messages emitted, in order
    returned,     \* messages taken by get_attr, in order
    outstanding,  \* outstanding[h]: commands sent whose reply is not yet received
    policy,       \* the gatekeeper worker's allow-list and deny-list
    monState,     \* how far the caller is in configure, start, retrieve
    authHandles,  \* live ZAuth handles
    vcat, vstr, vtok, vdec, vstep,  \* vocabulary conversions (VocabSpec)
    zlist, cursor, vec, lpc, lret, iters   \* a ZList and its caller (ListSpec)

chanVars == <<pipeIn, pipeOut, pc, cur, ret, nops, processed, started,
              emitted, returned, outstanding, policy, monState, authHandles>>
vocabVars == <<vcat, vstr, vtok, vdec, vstep>>
listVars == <<zlist, cursor, vec, lpc, lret, iters>>
vars == <<pipeIn, pipeOut, pc, cur, ret, nops, processed, started,
          emitted, returned, outstanding, policy, monState, authHandles,
          vcat, vstr, vtok, vdec, vstep,
          zlist, cursor, vec, lpc, lret, iters>>

\* The gatekeeper worker's policy when it is created: both lists empty.
NoPolicy == [allow |-> {}, deny |-> {}]

\* What the last ZList call gave; none was made yet.
NoItem == [op |-> "none", some |-> FALSE, val |-> "", start |-> 0]

NoCur == [op |-> "none", h |-> "none", id |-> 0, arg |-> <<>>, frames |-> <<>>]

NoRet ==
    [op |-> "none", h |-> "none", id |-> 0, result |-> "none",
     sends |-> 0, sendOk |-> FALSE, waits |-> 0, replyOf |-> 0,
     replyCode |-> 0, got |-> NoMsg, val |-> "", arg |-> <<>>,
     frames |-> <<>>, fault |-> "none"]

ChanInit ==
    /\ pipeIn = [h \in Handles |-> <<>>]
    /\ pipeOut = [h \in Handles |-> <<>>]
    /\ pc = "idle"
    /\ cur = NoCur
    /\ ret = NoRet
    /\ nops = 0
    /\ processed = [h \in Handles |-> {}]
    /\ started = FALSE
    /\ emitted = <<>>
    /\ returned = <<>>
    /\ outstanding = [h \in Handles |-> {}]
    /\ policy = NoPolicy
    /\ monState = "Constructed"
    /\ authHandles = 1

VocabOff ==
    /\ vcat = "Unknown" /\ vstr = "" /\ vtok = "" /\ vdec = "none"
    /\ vstep = "off"

ListOff ==
    /\ zlist = <<>> /\ cursor = 0 /\ vec = <<>> /\ lpc = "off"
    /\ lret = NoItem /\ iters = 0

Init ==
    /\ ChanInit
    /\ VocabOff
    /\ ListOff

(***************************************************************************)
(* The caller's side of the pipe                                           *)
(***************************************************************************)
\* What can go wrong before a command is on the pipe: an addstr on the
\* message being built fails (only when the operation builds a ZMsg with
\* nadd addstr calls), or the send itself fails.
Faults(nadd) == {"none", "send"} \cup (IF nadd > 0 THEN {"addstr"} ELSE {})

\* The caller's progress through set_attrs([All]), start, first get_attr on
\* a new monitor, once operation op on handle h has returned result; any
\* other order of monitor operations leaves that path.
MonStateAfter(h, op, arg, result) ==
    IF h # "mon" THEN monState
    ELSE CASE monState = "Constructed" /\ op = "set_attrs" /\ result = "Ok"
                /\ arg = <<"All">>                      -> "Configured"
           [] monState = "Configured" /\ op = "start" /\ result = "Ok"
                                                        -> "Started"
           [] monState = "Started" /\ op = "get_attr"
                /\ result \in {"OkOk", "OkErr"}         -> "Reading"
           [] OTHER                                     -> "Other"

\* The operation returns to the caller without having received anything.
Return(h, op, id, result, sends, sendOk, arg, frames, fault) ==
    /\ pc' = "idle"
    /\ cur' = NoCur
    /\ ret' = [op |-> op, h |-> h, id |-> id, result |-> result,
               sends |-> sends, sendOk |-> sendOk, waits |-> 0,
               replyOf |-> 0, replyCode |-> 0, got |-> NoMsg, val |-> "",
               arg |-> arg, frames |-> frames, fault |-> fault]
    /\ monState' = MonStateAfter(h, op, arg, result)

\* The command message is put on the pipe to the worker of h.
Deliver(h, id, frames) ==
    /\ pipeIn' = [pipeIn EXCEPT ![h] = Append(@, [id |-> id, frames |-> frames])]
    /\ outstanding' = [outstanding EXCEPT ![h] = @ \cup {id}]

\* SendThenWait with the message sent although an addstr on it failed.
SendThenWaitSendsPartial(h, op, arg, frames, nadd) ==
    /\ pc = "idle"
    /\ nops < MaxOps
    /\ nops' = nops + 1
    /\ \E fault \in Faults(nadd) :
         CASE fault = "addstr" ->
                /\ Deliver(h, nops + 1, SubSeq(frames, 1, 1))
                /\ Return(h, op, nops + 1, "Err", 1, FALSE, arg, <<>>, "addstr")
           [] fault = "send" ->
                /\ Return(h, op, nops + 1, "Err", 1, FALSE, arg, <<>>, "send")
                /\ UNCHANGED <<pipeIn, outstanding>>
           [] fault = "none" ->
                /\ Deliver(h, nops + 1, frames)
                /\ pc' = "wait"
                /\ cur' = [op |-> op, h |-> h, id |-> nops + 1,
                           arg |-> arg, frames |-> frames]
                /\ UNCHANGED <<ret, monState>>
    /\ UNCHANGED <<pipeOut, processed, started, emitted, returned, policy,
                   authHandles, vocabVars, listVars>>

\* try!(send(msg)); sock().wait(): the command is sent and the caller then
\* blocks in wait.  A failed addstr or send returns the error at once.
SendThenWait(h, op, arg, frames, nadd) ==
    /\ pc = "idle"
    /\ nops < MaxOps
    /\ nops' = nops + 1
    /\ \E fault \in Faults(nadd) :
         CASE fault = "addstr" ->
                /\ Return(h, op, nops + 1, "Err", 0, FALSE, arg, <<>>, "addstr")
                /\ UNCHANGED <<pipeIn, outstanding>>
           [] fault = "send" ->
                /\ Return(h, op, nops + 1, "Err", 1, FALSE, arg, <<>>, "send")
                /\ UNCHANGED <<pipeIn, outstanding>>
           [] fault = "none" ->
                /\ Deliver(h, nops + 1, frames)
                /\ pc' = "wait"
                /\ cur' = [op |-> op, h |-> h, id |-> nops + 1,
                           arg |-> arg, frames |-> frames]
                /\ UNCHANGED <<ret, monState>>
    /\ UNCHANGED <<pipeOut, processed, started, emitted, returned, policy,
                   authHandles, vocabVars, listVars>>

\* send(msg) as the last expression: the send result is the result of the
\* operation and nothing is waited for.
SendOnly(h, op, arg, frames, nadd) ==
    /\ pc = "idle"
    /\ nops < MaxOps
    /\ nops' = nops + 1
    /\ \E fault \in Faults(nadd) :
         CASE fault = "addstr" ->
                /\ Return(h, op, nops + 1, "Err", 0, FALSE, arg, <<>>, "addstr")
                /\ UNCHANGED <<pipeIn, outstanding>>
           [] fault = "send" ->
                /\ Return(h, op, nops + 1, "Err", 1, FALSE, arg, <<>>, "send")
                /\ UNCHANGED <<pipeIn, outstanding>>
           [] fault = "none" ->
                /\ Deliver(h, nops + 1, frames)
                /\ Return(h, op, nops + 1, "Ok", 1, TRUE, arg, frames, "none")
    /\ UNCHANGED <<pipeOut, processed, started, emitted, returned, policy,
                   authHandles, vocabVars, listVars>>

\* The result wait gives for a status reply.
WaitResult(code) == IF code = 0 THEN "Ok" ELSE "Err"

\* wait: the next message on the pipe is a status reply; the operation
\* returns with it.
WaitStatus ==
    /\ pc = "wait"
    /\ pipeOut[cur.h] # <<>>
    /\ LET m == Head(pipeOut[cur.h]) IN
         /\ m.kind = "status"
         /\ pipeOut' = [pipeOut EXCEPT ![cur.h] = Tail(@)]
         /\ outstanding' = [outstanding EXCEPT ![cur.h] = @ \ {m.of}]
         /\ pc' = "idle"
         /\ cur' = NoCur
         /\ ret' = [op |-> cur.op, h |-> cur.h, id |-> cur.id,
                    result |-> WaitResult(m.code), sends |-> 1,
                    sendOk |-> TRUE, waits |-> 1, replyOf |-> m.of,
                    replyCode |-> m.code, got |-> NoMsg, val |-> "",
                    arg |-> cur.arg, frames |-> cur.frames,
                    fault |-> "none"]
         /\ monState' = MonStateAfter(cur.h, cur.op, cur.arg,
                                      WaitResult(m.code))
    /\ UNCHANGED <<pipeIn, nops, processed, started, emitted, returned,
                   policy, authHandles, vocabVars, listVars>>

\* wait: the next message on the pipe is no status reply; wait drops it and
\* goes on waiting.
WaitDiscard ==
    /\ pc = "wait"
    /\ pipeOut[cur.h] # <<>>
    /\ Head(pipeOut[cur.h]).kind # "status"
    /\ pipeOut' = [pipeOut EXCEPT ![cur.h] = Tail(@)]
    /\ UNCHANGED <<pipeIn, pc, cur, ret, nops, processed, started, emitted,
                   returned, outstanding, policy, monState, authHandles,
                   vocabVars, listVars>>

(***************************************************************************)
(* ZAuth  (src/src/zauth.rs)                                               *)
(***************************************************************************)
\* The worker's fixed rendezvous point is free: no gatekeeper worker is
\* bound to it.  ZActor::new fails when the new worker cannot bind it.
ZapEndpointFree == authHandles = 0

\* ZAuth::new that hands out a handle although ZActor::new failed.
ZAuthNewIgnoresFailure ==
    /\ pc = "idle"
    /\ nops < MaxOps
    /\ nops' = nops + 1
    /\ authHandles' = authHandles + 1
    /\ policy' = NoPolicy
    /\ ret' = [NoRet EXCEPT !.op = "new", !.h = "auth", !.id = nops + 1,
                            !.result = "Ok",
                            !.arg = IF authHandles >= 1 THEN <<"alive">>
                                                        ELSE <<>>]
    /\ UNCHANGED <<pipeIn, pipeOut, pc, cur, processed, started, emitted,
                   returned, outstanding, monState, vocabVars, listVars>>

\* ZAuth::new: try!(ZActor::new(czmq_sys::zauth)) gives the handle, or
\* returns the error of ZActor::new.
ZAuthNew ==
    /\ pc = "idle"
    /\ nops < MaxOps
    /\ nops' = nops + 1
    /\ IF ZapEndpointFree
       THEN /\ authHandles' = authHandles + 1
            /\ policy' = NoPolicy
            /\ ret' = [NoRet EXCEPT !.op = "new", !.h = "auth",
                                    !.id = nops + 1, !.result = "Ok"]
       ELSE /\ ret' = [NoRet EXCEPT !.op = "new", !.h = "auth",
                                    !.id = nops + 1, !.result = "Err",
                                    !.arg = <<"alive">>]
            /\ UNCHANGED <<authHandles, policy>>
    /\ UNCHANGED <<pipeIn, pipeOut, pc, cur, processed, started, emitted,
                   returned, outstanding, monState, vocabVars, listVars>>

\* The ZAuth handle is dropped: its worker is torn down and the rendezvous
\* point released.
ZAuthDrop ==
    /\ pc = "idle"
    /\ authHandles >= 1
    /\ nops < MaxOps
    /\ nops' = nops + 1
    /\ authHandles' = authHandles - 1
    /\ policy' = NoPolicy
    /\ ret' = [NoRet EXCEPT !.op = "drop", !.h = "auth", !.id = nops + 1,
                            !.result = "Ok"]
    /\ UNCHANGED <<pipeIn, pipeOut, pc, cur, processed, started, emitted,
                   returned, outstanding, monState, vocabVars, listVars>>

Allow ==
    /\ authHandles >= 1
    /\ \E address \in Addresses :
         SendThenWait("auth", "allow", <<address>>, AllowFrames(address), 2)

Deny ==
    /\ authHandles >= 1
    /\ \E address \in Addresses :
         SendThenWait("auth", "deny", <<address>>, DenyFrames(address), 2)

LoadPlain ==
    /\ authHandles >= 1
    /\ \E filename \in FileNames :
         SendThenWait("auth", "load_plain", <<filename>>, PlainFrames(filename), 2)

LoadCurve ==
    /\ authHandles >= 1
    /\ \E location \in Locations :
         SendThenWait("auth", "load_curve", OptArg(location),
                      CurveFrames(location), 2)

\* unimplemented!(): the call panics; nothing is built or sent and no
\* Result is returned.  The panic unwinds the calling thread.
LoadGssapi ==
    /\ authHandles >= 1
    /\ pc = "idle"
    /\ nops < MaxOps
    /\ nops' = nops + 1
    /\ pc' = "panicked"
    /\ cur' = NoCur
    /\ ret' = [NoRet EXCEPT !.op = "load_gssapi", !.h = "auth",
                            !.id = nops + 1, !.result = "Panic"]
    /\ UNCHANGED <<pipeIn, pipeOut, processed, started, emitted, returned,
                   outstanding, policy, monState, authHandles, vocabVars,
                   listVars>>

\* ZAuth::verbose with the wait left out.
AuthVerboseNoWait == SendOnly("auth", "verbose", <<>>, VerboseFrames, 0)

AuthVerbose ==
    /\ authHandles >= 1
    /\ SendThenWait("auth", "verbose", <<>>, VerboseFrames, 0)

(***************************************************************************)
(* ZMonitor  (src/src/zmonitor.rs)                                         *)
(***************************************************************************)
SetAttrs == \E attrs \in AttrLists :
    SendOnly("mon", "set_attrs", attrs, ListenFrames(attrs), 1 + Len(attrs))

Start == SendThenWait("mon", "start", <<>>, StartFrames, 0)

\* ZMonitor::verbose with a status wait after the send.
MonVerboseWaits == SendThenWait("mon", "verbose", <<>>, VerboseFrames, 0)

MonVerbose == SendOnly("mon", "verbose", <<>>, VerboseFrames, 0)

\* The match of get_attr on what popstr gave, with a frame that is not
\* UTF-8 reported as an error of the operation.
GetAttrResultBytesAsError(p) ==
    CASE p.tag = "OkOk"  -> [result |-> "OkOk", val |-> from_str(p.data)]
      [] p.tag = "OkErr" -> [result |-> "Err", val |-> ""]
      [] p.tag = "Err"   -> [result |-> "Err", val |-> ""]

\* The match of get_attr on what popstr gave: Ok(s) => Ok(Ok(from_str(s))),
\* Err(v) => Ok(Err(v)); try! turns a popstr error into Err.
GetAttrResult(p) ==
    CASE p.tag = "OkOk"  -> [result |-> "OkOk", val |-> from_str(p.data)]
      [] p.tag = "OkErr" -> [result |-> "OkErr", val |-> p.data]
      [] p.tag = "Err"   -> [result |-> "Err", val |-> ""]

\* get_attr is called: ZMsg::recv either fails at once or blocks on the pipe.
GetAttr ==
    /\ pc = "idle"
    /\ nops < MaxOps
    /\ nops' = nops + 1
    /\ \E recvOk \in BOOLEAN :
         IF recvOk
         THEN /\ pc' = "recv"
              /\ cur' = [NoCur EXCEPT !.op = "get_attr", !.h = "mon",
                                      !.id = nops + 1]
              /\ UNCHANGED <<ret, monState>>
         ELSE Return("mon", "get_attr", nops + 1, "Err", 0, FALSE, <<>>,
                     <<>>, "recv")
    /\ UNCHANGED <<pipeIn, pipeOut, processed, started, emitted, returned,
                   outstanding, policy, authHandles, vocabVars, listVars>>

\* ZMsg::recv takes the next message off the pipe, whatever it is, and
\* get_attr decodes its first frame.
GetAttrRecv ==
    /\ pc = "recv"
    /\ pipeOut["mon"] # <<>>
    /\ LET m == Head(pipeOut["mon"])
           r == GetAttrResult(popstr(m))
       IN /\ pipeOut' = [pipeOut EXCEPT !["mon"] = Tail(@)]
          /\ outstanding' = [outstanding EXCEPT !["mon"] = @ \ {m.of}]
          /\ returned' = Append(returned, m)
          /\ ret' = [NoRet EXCEPT !.op = "get_attr", !.h = "mon",
                                  !.id = cur.id, !.result = r.result,
                                  !.val = r.val, !.got = m]
          /\ monState' = MonStateAfter("mon", "get_attr", <<>>, r.result)
    /\ pc' = "idle"
    /\ cur' = NoCur
    /\ UNCHANGED <<pipeIn, nops, processed, started, emitted, policy,
                   authHandles, vocabVars, listVars>>

(***************************************************************************)
(* The workers                                                             *)
(***************************************************************************)
\* The gatekeeper worker's policy after it has executed a command: ALLOW
\* adds the address to the allow-list, DENY adds it to the deny-list.
PolicyAfter(pol, frames) ==
    CASE frames[1] = "ALLOW" -> [pol EXCEPT !.allow = @ \cup {frames[2]}]
      [] frames[1] = "DENY"  -> [pol EXCEPT !.deny = @ \cup {frames[2]}]
      [] OTHER               -> pol

\* Whether the gatekeeper worker accepts a connection attempt from address:
\* with a non-empty allow-list only listed addresses are accepted, otherwise
\* every address that is not on the deny-list.
Accepts(address) ==
    IF policy.allow # {} THEN address \in policy.allow
    ELSE address \notin policy.deny

\* The worker of h reads the next command, executes it and posts its status
\* reply.
WorkerProcess(h) ==
    /\ pipeIn[h] # <<>>
    /\ LET c == Head(pipeIn[h]) IN
         \E code \in {0, 1} :
            /\ pipeIn' = [pipeIn EXCEPT ![h] = Tail(@)]
            /\ pipeOut' = [pipeOut EXCEPT ![h] = Append(@, StatusMsg(c.id, code))]
            /\ processed' = [processed EXCEPT ![h] = @ \cup {c.id}]
            /\ started' = (started \/ (h = "mon" /\ c.frames[1] = "START"
                                                 /\ code = 0))
            /\ policy' = (IF h = "auth" /\ code = 0
                          THEN PolicyAfter(policy, c.frames) ELSE policy)
    /\ UNCHANGED <<pc, cur, ret, nops, emitted, returned, outstanding,
                   monState, authHandles, vocabVars, listVars>>

AuthWorker == WorkerProcess("auth")

MonWorker == WorkerProcess("mon")

\* The started monitor worker posts an event message.
MonWorkerEmit ==
    /\ started
    /\ Len(emitted) < MaxEvents
    /\ \E f \in EventFrames :
         /\ pipeOut' = [pipeOut EXCEPT !["mon"] =
                           Append(@, EventMsg(f, Len(emitted) + 1))]
         /\ emitted' = Append(emitted, f)
    /\ UNCHANGED <<pipeIn, pc, cur, ret, nops, processed, started, returned,
                   outstanding, policy, monState, authHandles, vocabVars,
                   listVars>>

Next ==
    \/ ZAuthNew
    \/ ZAuthDrop
    \/ Allow
    \/ Deny
    \/ LoadPlain
    \/ LoadCurve
    \/ LoadGssapi
    \/ AuthVerbose
    \/ SetAttrs
    \/ Start
    \/ MonVerbose
    \/ GetAttr
    \/ GetAttrRecv
    \/ WaitStatus
    \/ WaitDiscard
    \/ AuthWorker
    \/ MonWorker
    \/ MonWorkerEmit

Spec == Init /\ [][Next]_vars

(***************************************************************************)
(* The vocabulary on its own: a category and a string are drawn, to_str    *)
(* and from_str are applied to them.                                       *)
(***************************************************************************)
VocabInit ==
    /\ ChanInit
    /\ vcat \in ZMonitorEvents
    /\ vstr \in Strings
    /\ vtok = ""
    /\ vdec = "none"
    /\ vstep = "input"
    /\ ListOff

\* c.to_str()
Encode ==
    /\ vstep = "input"
    /\ vtok' = to_str(vcat)
    /\ vstep' = "encoded"
    /\ UNCHANGED <<chanVars, listVars, vcat, vstr, vdec>>

\* ZMonitorEvents::from_str(c.to_str())
DecodeToken ==
    /\ vstep = "encoded"
    /\ vdec' = from_str(vtok)
    /\ vstep' = "roundtrip"
    /\ UNCHANGED <<chanVars, listVars, vcat, vstr, vtok>>

\* ZMonitorEvents::from_str(S)
DecodeString ==
    /\ vstep = "input"
    /\ vdec' = from_str(vstr)
    /\ vstep' = "decoded"
    /\ UNCHANGED <<chanVars, listVars, vcat, vstr, vtok>>

VocabNext ==
    \/ Encode
    \/ DecodeToken
    \/ DecodeString

VocabSpec == VocabInit /\ [][VocabNext]_vars

(***************************************************************************)
(* ZList  (src/src/zlist.rs)                                               *)
(*                                                                         *)
(* zlist is the native list, a sequence of C strings; cursor is the        *)
(* native cursor, 0 when it is null and else the index of the element it   *)
(* is on.                                                                  *)
(***************************************************************************)
\* A C string in the list: valid UTF-8 text, or bytes that are not.
ValidStr(t) == [utf8 |-> TRUE, data |-> t]
InvalidStr(b) == [utf8 |-> FALSE, data |-> b]
ListItems == {ValidStr("moo"), ValidStr("cow"), InvalidStr("fffe")}

\* Values given to append; the last holds an interior NUL.
AppendValues == {"moo", "a\\0b"}

\* CString::new(value).unwrap_or(CString::new("").unwrap())
CStringNew(value) == IF value = "a\\0b" THEN "" ELSE value

Lists(n) == UNION {[1..k -> ListItems] : k \in 0..n}

\* zlist_next: the cursor moves to the next element, to the head when it
\* was null, and becomes null past the tail; the element it is on is given,
\* or null.
CursorNext(list, c) == IF c < Len(list) THEN c + 1 ELSE 0

\* next() with a string that is not UTF-8 taken as the end of the list.
NextOfNoneOnInvalid(list, c) ==
    IF c # 0 /\ list[c].utf8
    THEN [some |-> TRUE, val |-> list[c].data]
    ELSE [some |-> FALSE, val |-> ""]

\* next() on the pointer zlist_next gave: Some of the string, "" when it is
\* not UTF-8, and None for the null pointer.
NextOf(list, c) ==
    IF c # 0
    THEN [some |-> TRUE, val |-> IF list[c].utf8 THEN list[c].data ELSE ""]
    ELSE [some |-> FALSE, val |-> ""]

ListInit ==
    /\ ChanInit
    /\ VocabOff
    /\ zlist \in Lists(MaxListLen - 1)
    /\ cursor \in 0..Len(zlist)
    /\ vec = <<>>
    /\ lpc = "idle"
    /\ lret = NoItem
    /\ iters = 0

\* append(value): the value is added at the tail, or zlist_append fails.
append ==
    /\ lpc = "idle"
    /\ Len(zlist) < MaxListLen
    /\ \E value \in AppendValues, ok \in BOOLEAN :
         /\ zlist' = (IF ok THEN Append(zlist, ValidStr(CStringNew(value)))
                            ELSE zlist)
         /\ lret' = [op |-> "append", some |-> ok, val |-> value,
                     start |-> cursor]
    /\ UNCHANGED <<chanVars, vocabVars, cursor, vec, lpc, iters>>

\* next() called on its own.
ListNext ==
    /\ lpc = "idle"
    /\ cursor' = CursorNext(zlist, cursor)
    /\ lret' = [op |-> "next", some |-> NextOf(zlist, cursor').some,
                val |-> NextOf(zlist, cursor').val, start |-> cursor]
    /\ UNCHANGED <<chanVars, vocabVars, zlist, vec, lpc, iters>>

\* to_vec is called: v is a new empty vector.
ToVec ==
    /\ lpc = "idle"
    /\ lpc' = "loop"
    /\ vec' = <<>>
    /\ iters' = 0
    /\ lret' = [op |-> "to_vec", some |-> FALSE, val |-> "", start |-> cursor]
    /\ UNCHANGED <<chanVars, vocabVars, zlist, cursor>>

\* One turn of the loop of to_vec: next() is called; Some(s) is pushed, None
\* breaks the loop and v is returned.
ToVecStep ==
    /\ lpc = "loop"
    /\ cursor' = CursorNext(zlist, cursor)
    /\ iters' = iters + 1
    /\ LET n == NextOf(zlist, cursor') IN
         IF n.some
         THEN /\ vec' = Append(vec, n.val)
              /\ UNCHANGED lpc
         ELSE /\ lpc' = "idle"
              /\ UNCHANGED vec
    /\ UNCHANGED <<chanVars, vocabVars, zlist, lret>>

ListSpecNext ==
    \/ append
    \/ ListNext
    \/ ToVec
    \/ ToVecStep

\* The loop of to_vec runs in the caller's thread, which goes on running.
ListSpec == ListInit /\ [][ListSpecNext]_vars /\ WF_vars(ToVecStep)

(***************************************************************************)
(* Properties                                                              *)
(***************************************************************************)
AuthOps == {"allow", "deny", "load_plain", "load_curve", "verbose"}

\* C1: on each handle's channel, at most one command has its status reply
\* outstanding at any time: no command is sent while the reply to an earlier
\* command on that channel has not been received.
StrictAlternation ==
    \A h \in Handles : Cardinality(outstanding[h]) <= 1

\* C2: when set_attrs has returned success, the worker has executed its
\* LISTEN command and posted the status reply for it.
SetAttrsSynchronous ==
    (ret.op = "set_attrs" /\ ret.result = "Ok") => ret.id \in processed["mon"]

\* C3: when start has returned after sending START, the worker has executed
\* that START, so a get_attr issued afterwards cannot precede it.
StartSynchronous ==
    (ret.op = "start" /\ ret.sendOk) => ret.id \in processed["mon"]

\* C4: a returned ZAuth command operation has sent at most one message and
\* waited at most once, and its result is Ok exactly when it sent one
\* message, the send succeeded, it waited once and the status reply it got
\* reports success; a successful send is always followed by the wait.
GatekeeperPattern ==
    (ret.h = "auth" /\ ret.op \in AuthOps) =>
        /\ ret.sends <= 1
        /\ ret.waits <= 1
        /\ ret.sendOk => (ret.sends = 1 /\ ret.waits = 1)
        /\ (ret.result = "Ok") <=>
              (ret.sends = 1 /\ ret.sendOk /\ ret.waits = 1
                 /\ ret.replyCode = 0)
        /\ ret.result \in {"Ok", "Err"}

\* C4 witness: load_curve has sent CURVE, waited and returned Ok.
GatekeeperPatternWitness ==
    /\ ret.h = "auth" /\ ret.op = "load_curve"
    /\ ret.result = "Ok" /\ ret.sends = 1 /\ ret.waits = 1

\* C5: the status reply an operation returns with is the reply to the
\* command that this operation sent.
StatusAttribution ==
    ret.waits = 1 => ret.replyOf = ret.id

\* C6: load_gssapi sends nothing and returns a failure result.
GssapiReturnsFailure ==
    ret.op = "load_gssapi" => (ret.result = "Err" /\ ret.sends = 0)

\* C7: every category other than Unknown is got back by from_str from the
\* token to_str gives it.
VocabularyRoundTrip ==
    (vstep = "roundtrip" /\ vcat # "Unknown") => vdec = vcat

\* C7 witness: Closed has been encoded as CLOSED and decoded again.
VocabularyRoundTripWitness ==
    vstep = "roundtrip" /\ vcat = "Closed" /\ vtok = "CLOSED"

\* C8: from_str gives Unknown for every string that is none of the twelve
\* wire tokens, and always gives a category.
FailClosedDecoding ==
    vstep = "decoded" =>
        /\ vdec \in ZMonitorEvents
        /\ vstr \notin WireTokens => vdec = "Unknown"

\* C8 witness: the string UNKNOWN, which is no wire token, has been decoded.
FailClosedDecodingWitness ==
    vstep = "decoded" /\ vstr = "UNKNOWN"

\* C9: when get_attr has received an event message, it returns Ok(Ok(c))
\* with c decoded from the first frame when that frame is UTF-8 (Unknown
\* when it is no wire token), and Ok(Err(bytes)) with the frame's bytes
\* when it is not; never an error.
DoubleFallbackDecode ==
    (ret.op = "get_attr" /\ ret.got.kind = "event") =>
        LET f == ret.got.frames[1] IN
        IF f.utf8
        THEN /\ ret.result = "OkOk"
             /\ ret.val = from_str(f.data)
             /\ f.data \notin WireTokens => ret.val = "Unknown"
        ELSE /\ ret.result = "OkErr"
             /\ ret.val = f.data

\* C9 witness: get_attr has received an event whose first frame is not
\* UTF-8.
DoubleFallbackDecodeWitness ==
    /\ ret.op = "get_attr" /\ ret.got.kind = "event"
    /\ ~ret.got.frames[1].utf8

\* C10: the messages get_attr has returned are the event messages the
\* worker emitted, in emission order, none missing and nothing else.
EventOrderNoLoss ==
    \A i \in 1..Len(returned) :
        /\ returned[i].kind = "event"
        /\ returned[i].seq = i
        /\ returned[i].frames[1] = emitted[i]

CurveMessageFrames ==
    (ret.op = "load_curve" /\ ret.sendOk) =>
        /\ Len(ret.frames) = 2
        /\ ret.frames[1] = "CURVE"
        /\ ret.frames[2] = (IF ret.arg = <<>> THEN "*" ELSE ret.arg[1])

\* C12 witness: load_curve(None) has sent its message.
CurveMessageFramesWitness ==
    ret.op = "load_curve" /\ ret.sendOk /\ ret.arg = <<>>

\* C13: the message a load_curve(Some(p)) has sent differs from the message
\* load_curve(None) sends.
CurveCasesDiffer ==
    (ret.op = "load_curve" /\ ret.sendOk /\ ret.arg # <<>>) =>
        ret.frames # CurveFrames(None)

\* C17: ZMonitor::verbose returns the result of its one send of the single
\* frame VERBOSE and has waited for no status reply, while a ZAuth::verbose
\* whose send succeeded has waited for one.
MonitorVerboseFireAndForget ==
    /\ (ret.op = "verbose" /\ ret.h = "mon") =>
          /\ ret.sends = 1
          /\ ret.waits = 0
          /\ ret.result = (IF ret.sendOk THEN "Ok" ELSE "Err")
          /\ ret.sendOk => ret.frames = <<"VERBOSE">>
    /\ (ret.op = "verbose" /\ ret.h = "auth" /\ ret.sendOk) => ret.waits = 1

\* C17 witness: ZMonitor::verbose has returned Ok before the worker has
\* executed its VERBOSE.
MonitorVerboseFireAndForgetWitness ==
    /\ ret.op = "verbose" /\ ret.h = "mon" /\ ret.result = "Ok"
    /\ ret.id \notin processed["mon"]

\* C18: an operation in which an addstr or the send failed has returned Err
\* without waiting, and its command is neither on the pipe nor executed by
\* the worker; after a failed addstr no send was attempted; no command is on
\* the pipe twice or on the pipe again after the worker executed it.
FailFastNoRetry ==
    /\ ret.fault \in {"addstr", "send"} =>
          /\ ret.result = "Err"
          /\ ret.waits = 0
          /\ ret.frames = <<>>
          /\ ret.id \notin processed[ret.h]
          /\ \A i \in 1..Len(pipeIn[ret.h]) : pipeIn[ret.h][i].id # ret.id
    /\ ret.fault = "addstr" => ret.sends = 0
    /\ \A h \in Handles :
          /\ \A i, j \in 1..Len(pipeIn[h]) :
                pipeIn[h][i].id = pipeIn[h][j].id => i = j
          /\ \A i \in 1..Len(pipeIn[h]) : pipeIn[h][i].id \notin processed[h]

\* C18 witness: an addstr failed in set_attrs.
FailFastNoRetryWitness ==
    ret.op = "set_attrs" /\ ret.fault = "addstr"

\* C20: no message that get_attr has returned is a status reply.
NoStatusAsEvent ==
    ret.op = "get_attr" => ret.got.kind # "status"

FirstEventAfterStart ==
    monState = "Reading" =>
        /\ returned[1].kind = "event"
        /\ returned[1].seq = 1
        /\ returned[1].frames[1] = emitted[1]

ZListResults ==
    /\ lret.op = "to_vec" =>
          /\ iters <= Len(zlist) - lret.start + 1
          /\ Len(vec) <= Len(zlist) - lret.start
          /\ lpc = "idle" =>
                /\ iters = Len(zlist) - lret.start + 1
                /\ Len(vec) = Len(zlist) - lret.start
                /\ \A i \in 1..Len(vec) :
                      vec[i] = (IF zlist[lret.start + i].utf8
                                THEN zlist[lret.start + i].data ELSE "")
                /\ zlist = <<>> => vec = <<>>
    /\ lret.op = "next" =>
          /\ zlist = <<>> => ~lret.some
          /\ lret.some <=> lret.start < Len(zlist)
          /\ lret.some =>
                lret.val = (IF zlist[lret.start + 1].utf8
                            THEN zlist[lret.start + 1].data ELSE "")

\* C19: to_vec once called returns, after at most one call of next() more
\* than there are elements after the cursor, and returns those elements in
\* list order ("" for one that is not UTF-8); next() gives the element after
\* the cursor, and None when there is none: None on an empty list, and the
\* appended element on a list of one element whose cursor is null.
ZListToVec ==
    /\ []ZListResults
    /\ (lpc = "loop") ~> (lpc = "idle")

\* C19 witness: to_vec has returned two elements, the first of them not
\* UTF-8.
ZListToVecWitness ==
    /\ lret.op = "to_vec" /\ lpc = "idle" /\ Len(vec) = 2
    /\ ~zlist[lret.start + 1].utf8

====
